---- MODULE Spec2Model ----
(***************************************************************************)
(* A model of src/src/_kafka.py: the inbound relay (consume_messages /     *)
(* receive_messages), the outbound relay (produce_messages /               *)
(* send_messages), the speed monitor (log_speed) and the collaborators     *)
(* they talk to: the aiokafka consumer and producer, the two asyncio       *)
(* queues and the asyncio event loop that schedules the put tasks that     *)
(* asyncio.gather creates.                                                 *)
(***************************************************************************)
EXTENDS Integers, Sequences, FiniteSets, TLC

(* ---------------------------------------------------------------- bounds *)

\* Records in each partition's log (offsets 0 .. LogLen-1).
LogLen == 2
\* The largest batch_size (max_records of getmany) a run is started with.
MaxBatchSize == 3
\* The largest maxsize the inbound queue is built with (0: unbounded).
MaxQueueSize == 2
\* How many wake-ups of the external consumer may wait in the event loop.
MaxConsumerWakeups == 1
\* How often the engine's process is killed and started again.
MaxRestarts == 1

\* How many items the external producer submits to the outbound queue.
MaxItems == 3
\* The clock stops here.
MaxTime == 120

\* The partitions of the subscribed topic: two, so that one poll result can
\* span more than one partition.
Partitions == {"tp0", "tp1"}

\* The two outbound relays of the source: the engine's method and the
\* module-level function.
OutRelays == {"produce_messages", "send_messages"}

\* The readings of time.time() advance in these steps.
TickSteps == {20, 40}

(* ----------------------------------------------------------------- state *)

VARIABLES
    \* -- the broker and the consumer client
    position,       \* consumer's in-memory fetch position per partition
    committed,      \* offsets committed at the broker per partition
    \* -- the inbound relay task
    batch_size,     \* the relay's batch_size argument
    inPc,           \* where the relay is: top, polling, putting, committing,
                    \* stopped, failed
    batch,          \* the result of the last getmany, as the list batch.items()
    cur,            \* index in batch of the item the for loop is at
    inShutdown,     \* the inbound shutdown_event
    \* -- the inbound queue and the event loop
    maxsize,        \* receive_queue.maxsize
    receive_queue,  \* receive_queue's items, oldest first
    putters,        \* receive_queue._putters: suspended put tasks, oldest first
    ready,          \* the event loop's ready callbacks, next first
    tasksDone,      \* the put tasks of the current gather that have returned
    \* -- history
    enqueued,       \* every record put into receive_queue, in put order
    cycleStart,     \* Len(enqueued) when the current cycle's poll was started
    restarts,       \* how often the process was restarted
    inError,        \* the call whose exception ended the relay, or "none"
    inShutdownAt,   \* where the relay was when its shutdown event was set
                    \* ("suspended": in a put on the full queue)
    commits,        \* the commit calls of the current cycle, in call order
    inSpeedCalls    \* log_speed calls of the relay's current iteration

inVars == <<position, committed, batch_size, inPc, batch, cur, inShutdown,
            maxsize, receive_queue, putters, ready, tasksDone, enqueued,
            cycleStart, restarts, inError, inShutdownAt, commits,
            inSpeedCalls>>

VARIABLES
    \* -- the outbound queue
    send_queue,     \* send_queue's items, oldest first
    unfinished,     \* send_queue._unfinished_tasks
    \* -- the outbound relays, one entry per relay
    outPc,          \* idle (not started), created (task made, not yet run),
                    \* top, sleeping, getting (suspended in send_queue.get),
                    \* sending, stopped, failed
    message,        \* the relay's local "message" (0: none)
    messages_sent,  \* the relay's counter
    start_time,     \* the relay's window start
    outShutdown,    \* the relay's shutdown_event
    \* -- the producer client and the broker
    inflight,       \* items send() has accepted that the broker has not acknowledged
    acked,          \* items the broker has acknowledged
    \* -- the clock
    now,            \* time.time()
    \* -- history
    submitted,      \* every item put on send_queue, in put order
    sendCalls,      \* every item producer.send was called with, in call order
    sendReturns,    \* how many producer.send calls returned without error
    speedLog,       \* how many records log_speed has logged
    outShutdownAt,  \* where each relay was when its shutdown event was set
    sleepArg,       \* the argument of the asyncio.sleep a relay is in (0: none)
    outSpeedCalls,  \* log_speed calls of each relay's current iteration
    rejected        \* items whose delivery future the broker failed

outVars == <<send_queue, unfinished, outPc, message, messages_sent, start_time,
             outShutdown, inflight, acked, now, submitted, sendCalls,
             sendReturns, speedLog, outShutdownAt, sleepArg, outSpeedCalls,
             rejected>>

vars == <<inVars, outVars>>

(* ------------------------------------------------------ helper operators *)

RECURSIVE SumOver(_, _)
SumOver(f, S) ==
    IF S = {} THEN 0
    ELSE LET x == CHOOSE y \in S : TRUE IN f[x] + SumOver(f, S \ {x})

\* The deserialized payload of the record at offset o of partition p.
Payload(p, o) == <<"payload", p, o>>

\* The key of the record at offset o of partition p.
Key(p, o) == <<"key", p, o>>

\* A ConsumerRecord as the relay sees it.
Record(p, o) == [tp |-> p, offset |-> o, key |-> Key(p, o), value |-> Payload(p, o)]

\* The records of partition p from offset from, n of them.
Records(p, from, n) == [i \in 1..n |-> Record(p, from + i - 1)]

\* All orders of the elements of S.
Orders(S) ==
    {s \in [1..Cardinality(S) -> S] : \A i, j \in DOMAIN s : i # j => s[i] # s[j]}

(* AIOKafkaConsumer.getmany(max_records=max): what a poll may return when  *)
(* the consumer is at pos. Any number of the records available past the    *)
(* position of each partition, max_records in total at most; a partition   *)
(* with no record returned is not in the result; none at all is the result *)
(* of a poll that timed out. The result is a dict: its items come in the   *)
(* order the partitions were added.                                        *)
PollResults(pos, max) ==
    LET counts == {n \in [Partitions -> 0..LogLen] :
                      /\ \A p \in Partitions : pos[p] + n[p] <= LogLen
                      /\ SumOver(n, Partitions) <= max}
    IN  UNION { { [i \in DOMAIN ord |->
                     [tp |-> ord[i],
                      messages |-> Records(ord[i], pos[ord[i]], n[ord[i]])]]
                  : ord \in Orders({p \in Partitions : n[p] > 0}) }
                : n \in counts }

\* The consumer's position after getmany returned result b.
Consumed(pos, b) ==
    [p \in Partitions |->
        IF \E i \in DOMAIN b : b[i].tp = p
        THEN LET i == CHOOSE k \in DOMAIN b : b[k].tp = p
             IN  pos[p] + Len(b[i].messages)
        ELSE pos[p]]

(* ------------------------------------------------- the inbound queue ---- *)

\* A bounded queue that makes every put wait.
FullWhenBounded(q) == maxsize > 0

\* A queue that takes one item more than its maxsize before it is full.
FullPastCapacity(q) == maxsize > 0 /\ Len(q) > maxsize

\* asyncio.Queue.full(): a maxsize of 0 is an unbounded queue.
Full(q) == maxsize > 0 /\ Len(q) >= maxsize

\* A relay that puts the record's key instead of its value.
PutValueKey(m) == m.key

\* What the relay puts for record m: receive_queue.put(m.value).
PutValue(m) == m.value

PutTask(i) == [kind |-> "put", i |-> i]
GetTask == [kind |-> "get", i |-> 0]

\* asyncio.gather(*[receive_queue.put(m.value) for m in messages]): one task
\* per message, each made ready in the order of the list.
GatherTasks(messages) == [i \in 1..Len(messages) |-> PutTask(i)]

\* A queue that wakes the put task suspended last.
NextPutterNewest(waiting) == waiting[Len(waiting)]

\* Queue._wakeup_next(self._putters): the longest suspended put task.
NextPutter(waiting) == Head(waiting)

(* ---------------------------------------------------- the inbound relay - *)

\* A loop that also stops on the outbound relay's shutdown event.
InLoopConditionJoint == ~inShutdown /\ ~outShutdown["produce_messages"]

\* A loop that does not look at its shutdown event.
InLoopConditionAlways == TRUE

\* while not shutdown_event.is_set()
InLoopCondition == ~inShutdown

\* A commit of the last offset fetched, not of the next offset to read.
CommitOffsetsLastFetched(pos, comm, tp) ==
    [p \in Partitions |-> IF pos[p] > 0 THEN pos[p] - 1 ELSE 0]

\* consumer.commit() without arguments: the consumed position of every
\* assigned partition is committed, whichever partition the loop is at.
CommitOffsets(pos, comm, tp) == pos

\* A relay that commits after the for loop, also when the result was empty.
ForLoopCommitEmpty(b, k) ==
    IF k > Len(b)
    THEN /\ inPc' = IF b = <<>> THEN "committing" ELSE "top"
         /\ UNCHANGED ready
    ELSE /\ inPc' = "putting"
         /\ ready' = ready \o [i \in 1..Len(b[k].messages) |->
                                  [kind |-> "put", i |-> i]]

\* The body of "for tp, messages in batch.items()" from item k on, up to its
\* first suspension: the gather of b[k]'s puts, or, past the last item, the
\* top of the while loop.
ForLoop(b, k) ==
    IF k > Len(b)
    THEN /\ inPc' = "top"
         /\ UNCHANGED ready
    ELSE /\ inPc' = "putting"
         /\ ready' = ready \o GatherTasks(b[k].messages)

\* The loop condition holds: getmany is called and the relay suspends in it.
\* The inbound loop has no call of log_speed.
InPollStart ==
    /\ inPc = "top"
    /\ InLoopCondition
    /\ inPc' = "polling"
    /\ cycleStart' = Len(enqueued)
    /\ commits' = <<>>
    /\ inSpeedCalls' = 0
    /\ UNCHANGED <<position, committed, batch_size, batch, cur, inShutdown,
                   maxsize, receive_queue, putters, ready, tasksDone,
                   enqueued, restarts, inError,
                   inShutdownAt>>
    /\ UNCHANGED outVars

\* The loop condition fails: the relay logs "shutdown" and returns.
InLoopExit ==
    /\ inPc = "top"
    /\ ~InLoopCondition
    /\ inPc' = "stopped"
    /\ UNCHANGED <<position, committed, batch_size, batch, cur, inShutdown,
                   maxsize, receive_queue, putters, ready, tasksDone,
                   enqueued, cycleStart, restarts, inError,
                   inShutdownAt,
                   commits, inSpeedCalls>>
    /\ UNCHANGED outVars

\* getmany returns b; the for loop starts on its first item.
InPollReturn ==
    /\ inPc = "polling"
    /\ \E b \in PollResults(position, batch_size) :
          /\ position' = Consumed(position, b)
          /\ batch' = b
          /\ cur' = 1
          /\ tasksDone' = {}
          /\ ForLoop(b, 1)
    /\ UNCHANGED <<committed, batch_size, inShutdown, maxsize, receive_queue,
                   putters, enqueued, cycleStart, restarts, inError,
                   inShutdownAt,
                   commits, inSpeedCalls>>
    /\ UNCHANGED outVars

\* getmany raises: the exception leaves the relay.
InPollFail ==
    /\ inPc = "polling"
    /\ inPc' = "failed"
    /\ inError' = "getmany"
    /\ UNCHANGED <<position, committed, batch_size, batch, cur, inShutdown,
                   maxsize, receive_queue, putters, ready, tasksDone,
                   enqueued, cycleStart, restarts, inShutdownAt,
                   commits, inSpeedCalls>>
    /\ UNCHANGED outVars

\* The event loop runs the next ready callback, a put task: Queue.put.
\* A full queue suspends the task in _putters; else the item is appended.
RunPutTask ==
    /\ ready # <<>>
    /\ Head(ready).kind = "put"
    /\ LET i == Head(ready).i
           m == batch[cur].messages[i]
       IN  IF Full(receive_queue)
           THEN /\ putters' = Append(putters, i)
                /\ UNCHANGED <<receive_queue, enqueued, tasksDone>>
           ELSE /\ receive_queue' = Append(receive_queue, PutValue(m))
                /\ enqueued' = Append(enqueued,
                      [tp |-> m.tp, offset |-> m.offset, value |-> PutValue(m)])
                /\ tasksDone' = tasksDone \cup {i}
                /\ UNCHANGED putters
    /\ ready' = Tail(ready)
    /\ UNCHANGED <<position, committed, batch_size, inPc, batch, cur,
                   inShutdown, maxsize, cycleStart, restarts, inError,
                   inShutdownAt,
                   commits, inSpeedCalls>>
    /\ UNCHANGED outVars

\* Every put of the gather has returned: the relay resumes and calls
\* consumer.commit(); the call is recorded with the offsets it commits and
\* the number of puts made so far.
InGatherDone ==
    /\ inPc = "putting"
    /\ tasksDone = DOMAIN batch[cur].messages
    /\ inPc' = "committing"
    /\ commits' = Append(commits,
          [tp |-> batch[cur].tp,
           offsets |-> CommitOffsets(position, committed, batch[cur].tp),
           enqueued |-> Len(enqueued)])
    /\ UNCHANGED <<position, committed, batch_size, batch, cur, inShutdown,
                   maxsize, receive_queue, putters, ready, tasksDone,
                   enqueued, cycleStart, restarts, inError,
                   inShutdownAt,
                   inSpeedCalls>>
    /\ UNCHANGED outVars

\* commit() returns: the broker holds the offsets; the for loop goes on.
InCommitReturn ==
    /\ inPc = "committing"
    /\ committed' = CommitOffsets(position, committed, batch[cur].tp)
    /\ cur' = cur + 1
    /\ tasksDone' = {}
    /\ ForLoop(batch, cur + 1)
    /\ UNCHANGED <<position, batch_size, batch, inShutdown, maxsize,
                   receive_queue, putters, enqueued, cycleStart, restarts, inError,
                   inShutdownAt,
                   commits, inSpeedCalls>>
    /\ UNCHANGED outVars

\* commit() raises: the exception leaves the relay.
InCommitFail ==
    /\ inPc = "committing"
    /\ inPc' = "failed"
    /\ inError' = "commit"
    /\ UNCHANGED <<position, committed, batch_size, batch, cur, inShutdown,
                   maxsize, receive_queue, putters, ready, tasksDone,
                   enqueued, cycleStart, restarts, inShutdownAt,
                   commits, inSpeedCalls>>
    /\ UNCHANGED outVars

\* The caller sets the inbound shutdown event.
SetInShutdown ==
    /\ inPc # "idle"
    /\ ~inShutdown
    /\ inShutdown' = TRUE
    /\ inShutdownAt' = IF putters # <<>> /\ Full(receive_queue)
                       THEN "suspended" ELSE inPc
    /\ UNCHANGED <<position, committed, batch_size, inPc, batch, cur, maxsize,
                   receive_queue, putters, ready, tasksDone, enqueued,
                   cycleStart, restarts, inError,
                   commits, inSpeedCalls>>
    /\ UNCHANGED outVars

(* ----------------------------------------------- the external consumer -- *)

\* The external consumer's task becomes ready to run; there is one when the
\* inbound relay was started.
ConsumerWakeup ==
    /\ inPc # "idle"
    /\ Len(SelectSeq(ready, LAMBDA t : t.kind = "get")) < MaxConsumerWakeups
    /\ ready' = Append(ready, GetTask)
    /\ UNCHANGED <<position, committed, batch_size, inPc, batch, cur,
                   inShutdown, maxsize, receive_queue, putters, tasksDone,
                   enqueued, cycleStart, restarts, inError,
                   inShutdownAt,
                   commits, inSpeedCalls>>
    /\ UNCHANGED outVars

\* The event loop runs the external consumer: it takes the oldest item, if
\* there is one (Queue.get_nowait), which wakes the next suspended put task.
RunConsumer ==
    /\ ready # <<>>
    /\ Head(ready).kind = "get"
    /\ IF receive_queue = <<>>
       THEN /\ ready' = Tail(ready)
            /\ UNCHANGED <<receive_queue, putters>>
       ELSE /\ receive_queue' = Tail(receive_queue)
            /\ IF putters = <<>>
               THEN /\ ready' = Tail(ready)
                    /\ UNCHANGED putters
               ELSE LET w == NextPutter(putters)
                    IN  /\ ready' = Append(Tail(ready), PutTask(w))
                        /\ putters' = SelectSeq(putters, LAMBDA x : x # w)
    /\ UNCHANGED <<position, committed, batch_size, inPc, batch, cur,
                   inShutdown, maxsize, tasksDone, enqueued, cycleStart,
                   restarts, inError,
                   inShutdownAt,
                   commits, inSpeedCalls>>
    /\ UNCHANGED outVars

(* ------------------------------------------------------- crash, restart - *)

\* The process of the engine is killed, wherever its relays are, and started
\* again. Everything the process held is gone with it: both queues and their
\* suspended puts, the tasks, the shutdown events, the counters. What the
\* broker holds stays: the log, the committed offsets, the records delivered.
\* The new process sets the engine up as the first did: kafka_consumer makes
\* a consumer of the same group, which resumes every partition from its
\* committed offset, the queues are new and empty, and start creates the
\* tasks of consume_messages and produce_messages.
ProcessRestart ==
    /\ inPc # "stopped"
    /\ restarts < MaxRestarts
    /\ restarts' = restarts + 1
    /\ position' = committed
    /\ inPc' = "top"
    /\ batch' = <<>>
    /\ cur' = 1
    /\ tasksDone' = {}
    /\ receive_queue' = <<>>
    /\ putters' = <<>>
    /\ ready' = <<>>
    /\ inShutdown' = FALSE
    /\ inShutdownAt' = "unset"
    /\ inError' = "none"
    /\ commits' = <<>>
    /\ inSpeedCalls' = 0
    /\ cycleStart' = Len(enqueued)
    /\ send_queue' = <<>>
    /\ unfinished' = 0
    /\ outPc' = [r \in OutRelays |->
                   IF r = "produce_messages" THEN "created" ELSE "idle"]
    /\ message' = [r \in OutRelays |-> 0]
    /\ messages_sent' = [r \in OutRelays |-> 0]
    /\ start_time' = [r \in OutRelays |-> 0]
    /\ outShutdown' = [r \in OutRelays |-> FALSE]
    /\ outShutdownAt' = [r \in OutRelays |-> "unset"]
    /\ sleepArg' = [r \in OutRelays |-> 0]
    /\ outSpeedCalls' = [r \in OutRelays |-> 0]
    /\ UNCHANGED <<committed, batch_size, maxsize, enqueued>>
    /\ UNCHANGED <<inflight, acked, rejected, now, submitted, sendCalls,
                   sendReturns, speedLog>>

(* ------------------------------------------------------ speed monitor --- *)

\* The default of log_speed's interval parameter.
LogInterval == 60

\* A monitor whose window is still open when the interval has just elapsed.
WindowOpenInclusive(delta_time, interval) == delta_time <= interval

\* The comparison that decides whether the window is still open.
WindowOpen(delta_time, interval) == delta_time < interval

\* log_speed(counter, start_time, ...) called at time t: the pair it returns
\* and whether it logged a record.
log_speed(counter, start, t) ==
    IF WindowOpen(t - start, LogInterval)
    THEN [start_time |-> start, counter |-> counter, logged |-> FALSE]
    ELSE [start_time |-> t, counter |-> 0, logged |-> TRUE]

(* --------------------------------------------------- the outbound relay - *)

\* The relay is about to test its loop condition: in the callback that runs
\* the coroutine for the first time, or back at the while.
AtTop(r) == outPc[r] \in {"created", "top"}

\* The window start that the cycle's log_speed call is given: the first run
\* of the coroutine reads start_time = time.time() before the loop, in the
\* same callback as its first cycle.
WindowStart(r) == IF outPc[r] = "created" THEN now ELSE start_time[r]

\* A loop that does not look at its shutdown event.
OutLoopConditionAlways(r) == TRUE

\* while not shutdown_event.is_set()
OutLoopCondition(r) == ~outShutdown[r]

\* The argument of asyncio.sleep in the empty-queue branch.
SleepSeconds == 1

\* A relay without the "continue": after the sleep it goes on to the get,
\* on a queue that may still be empty.
AfterSleepFallThrough(r) == "getting"

\* "continue" after the sleep: back to the loop condition.
AfterSleep(r) == "top"

\* A check that answers from what the queue held before another taker ran.
QueueEmptyStale(q) == FALSE

\* send_queue.empty()
QueueEmpty(q) == q = <<>>

\* A queue that hands out its newest item.
QueueGetNewest(q) == q[Len(q)]

\* Queue.get on a queue that is not empty: the oldest item.
QueueGet(q) == Head(q)

\* A relay that calls task_done() right after the get, before the send.
UnfinishedAfterGetDone(u) == u - 1

\* send_queue._unfinished_tasks after the get: get leaves it alone.
UnfinishedAfterGet(u) == u

\* send_queue._unfinished_tasks after the send returned: task_done().
UnfinishedAfterSend(u) == u - 1

\* The loop condition fails: the relay logs "shutdown" and returns.
OutLoopExit(r) ==
    /\ AtTop(r)
    /\ ~OutLoopCondition(r)
    /\ start_time' = [start_time EXCEPT ![r] = WindowStart(r)]
    /\ outPc' = [outPc EXCEPT ![r] = "stopped"]
    /\ UNCHANGED <<send_queue, unfinished, message, messages_sent,
                   outShutdown, inflight, acked, now, submitted, sendCalls,
                   sendReturns, speedLog, outShutdownAt,
                   sleepArg, outSpeedCalls, rejected>>
    /\ UNCHANGED inVars

\* A cycle that finds the queue empty: log_speed, then asyncio.sleep(1).
OutCycleEmpty(r) ==
    /\ AtTop(r)
    /\ OutLoopCondition(r)
    /\ LET ls == log_speed(messages_sent[r], WindowStart(r), now)
       IN  /\ start_time' = [start_time EXCEPT ![r] = ls.start_time]
           /\ messages_sent' = [messages_sent EXCEPT ![r] = ls.counter]
           /\ speedLog' = speedLog + (IF ls.logged THEN 1 ELSE 0)
    /\ outSpeedCalls' = [outSpeedCalls EXCEPT ![r] = 1]
    /\ QueueEmpty(send_queue)
    /\ sleepArg' = [sleepArg EXCEPT ![r] = SleepSeconds]
    /\ outPc' = [outPc EXCEPT ![r] = "sleeping"]
    /\ UNCHANGED <<send_queue, unfinished, message, outShutdown, inflight,
                   acked, now, submitted, sendCalls, sendReturns,
                   outShutdownAt,
                   rejected>>
    /\ UNCHANGED inVars

\* The sleep is over: continue, to the top of the loop.
OutSleepDone(r) ==
    /\ outPc[r] = "sleeping"
    /\ sleepArg' = [sleepArg EXCEPT ![r] = 0]
    /\ outPc' = [outPc EXCEPT ![r] = AfterSleep(r)]
    /\ UNCHANGED <<send_queue, unfinished, message, messages_sent, start_time,
                   outShutdown, inflight, acked, now, submitted, sendCalls,
                   sendReturns, speedLog, outShutdownAt,
                   outSpeedCalls, rejected>>
    /\ UNCHANGED inVars

\* A cycle that finds an item: log_speed, get, and the call of producer.send,
\* in which the relay suspends. Nothing suspends between the empty() check
\* and the get; a get on an empty queue would suspend the relay in get.
OutCycleSend(r) ==
    /\ AtTop(r)
    /\ OutLoopCondition(r)
    /\ LET ls == log_speed(messages_sent[r], WindowStart(r), now)
       IN  /\ start_time' = [start_time EXCEPT ![r] = ls.start_time]
           /\ messages_sent' = [messages_sent EXCEPT ![r] = ls.counter]
           /\ speedLog' = speedLog + (IF ls.logged THEN 1 ELSE 0)
    /\ outSpeedCalls' = [outSpeedCalls EXCEPT ![r] = 1]
    /\ ~QueueEmpty(send_queue)
    /\ IF send_queue = <<>>
       THEN /\ outPc' = [outPc EXCEPT ![r] = "getting"]
            /\ UNCHANGED <<message, send_queue, sendCalls, unfinished>>
       ELSE /\ LET m == QueueGet(send_queue)
               IN  /\ message' = [message EXCEPT ![r] = m]
                   /\ send_queue' = SelectSeq(send_queue, LAMBDA x : x # m)
                   /\ sendCalls' = Append(sendCalls, m)
            /\ unfinished' = UnfinishedAfterGet(unfinished)
            /\ outPc' = [outPc EXCEPT ![r] = "sending"]
    /\ UNCHANGED <<outShutdown, inflight, acked, now, submitted, sendReturns,
                   outShutdownAt,
                   rejected, sleepArg>>
    /\ UNCHANGED inVars

\* producer.send returns: the record is in the producer's buffer and what is
\* returned is the future of its delivery, which the relay drops. Then
\* task_done() and the counter.
OutSendReturn(r) ==
    /\ outPc[r] = "sending"
    /\ inflight' = inflight \cup {message[r]}
    /\ sendReturns' = sendReturns + 1
    /\ unfinished' = UnfinishedAfterSend(unfinished)
    /\ messages_sent' = [messages_sent EXCEPT ![r] = @ + 1]
    /\ outPc' = [outPc EXCEPT ![r] = "top"]
    /\ UNCHANGED <<send_queue, message, start_time, outShutdown, acked, now,
                   submitted, sendCalls, speedLog, outShutdownAt,
                   sleepArg, outSpeedCalls, rejected>>
    /\ UNCHANGED inVars

\* A relay that puts the item back on the queue when producer.send raises.
OutSendFailRequeue(r) ==
    /\ outPc[r] = "sending"
    /\ outPc' = [outPc EXCEPT ![r] = "failed"]
    /\ send_queue' = Append(send_queue, message[r])
    /\ UNCHANGED <<unfinished, message, messages_sent, start_time,
                   outShutdown, inflight, acked, now, submitted, sendCalls,
                   sendReturns, speedLog, outShutdownAt,
                   sleepArg, outSpeedCalls, rejected>>
    /\ UNCHANGED inVars

\* producer.send raises: the exception leaves the relay.
OutSendFail(r) ==
    /\ outPc[r] = "sending"
    /\ outPc' = [outPc EXCEPT ![r] = "failed"]
    /\ UNCHANGED <<send_queue, unfinished, message, messages_sent, start_time,
                   outShutdown, inflight, acked, now, submitted, sendCalls,
                   sendReturns, speedLog, outShutdownAt,
                   sleepArg, outSpeedCalls, rejected>>
    /\ UNCHANGED inVars

\* The caller sets a relay's shutdown event.
SetOutShutdown(r) ==
    /\ outPc[r] # "idle"
    /\ ~outShutdown[r]
    /\ outShutdown' = [outShutdown EXCEPT ![r] = TRUE]
    /\ outShutdownAt' = [outShutdownAt EXCEPT ![r] = outPc[r]]
    /\ UNCHANGED <<send_queue, unfinished, outPc, message, messages_sent,
                   start_time, inflight, acked, now, submitted, sendCalls,
                   sendReturns, speedLog,
                   sleepArg, outSpeedCalls, rejected>>
    /\ UNCHANGED inVars

(* --------------------------------- the external producer, broker, clock - *)

\* The external producer puts its next item on the outbound queue; there is
\* one when an outbound relay was started.
ProducerPut ==
    /\ \E r \in OutRelays : outPc[r] # "idle"
    /\ Len(submitted) < MaxItems
    /\ LET item == Len(submitted) + 1
       IN  /\ send_queue' = Append(send_queue, item)
           /\ submitted' = Append(submitted, item)
    /\ unfinished' = unfinished + 1
    /\ UNCHANGED <<outPc, message, messages_sent, start_time, outShutdown,
                   inflight, acked, now, sendCalls, sendReturns, speedLog,
                   outShutdownAt,
                   sleepArg, outSpeedCalls, rejected>>
    /\ UNCHANGED inVars

\* The broker acknowledges a record the producer has sent.
BrokerAck ==
    /\ \E x \in inflight :
          /\ inflight' = inflight \ {x}
          /\ acked' = acked \cup {x}
    /\ UNCHANGED <<send_queue, unfinished, outPc, message, messages_sent,
                   start_time, outShutdown, now, submitted, sendCalls,
                   sendReturns, speedLog, outShutdownAt,
                   sleepArg, outSpeedCalls, rejected>>
    /\ UNCHANGED inVars

\* The broker fails a record the producer has sent: the exception goes to
\* the delivery future that send returned, which no relay holds.
BrokerReject ==
    /\ \E x \in inflight :
          /\ inflight' = inflight \ {x}
          /\ rejected' = rejected \cup {x}
    /\ UNCHANGED <<send_queue, unfinished, outPc, message, messages_sent,
                   start_time, outShutdown, acked, now, submitted, sendCalls,
                   sendReturns, speedLog, outShutdownAt, sleepArg,
                   outSpeedCalls>>
    /\ UNCHANGED inVars

\* Time passes.
Tick ==
    /\ \E d \in TickSteps :
          /\ now + d <= MaxTime
          /\ now' = now + d
    /\ UNCHANGED <<send_queue, unfinished, outPc, message, messages_sent,
                   start_time, outShutdown, inflight, acked, submitted,
                   sendCalls, sendReturns, speedLog, outShutdownAt,
                   sleepArg, outSpeedCalls, rejected>>
    /\ UNCHANGED inVars

(* -------------------------------------------------------- specifications *)

InitInbound ==
    /\ position = [p \in Partitions |-> 0]
    /\ committed = [p \in Partitions |-> 0]
    /\ batch_size \in 1..MaxBatchSize
    /\ inPc = "top"
    /\ batch = <<>>
    /\ cur = 1
    /\ inShutdown = FALSE
    /\ maxsize \in 0..MaxQueueSize
    /\ receive_queue = <<>>
    /\ putters = <<>>
    /\ ready = <<>>
    /\ tasksDone = {}
    /\ enqueued = <<>>
    /\ cycleStart = 0
    /\ restarts = 0
    /\ inError = "none"
    /\ inShutdownAt = "unset"
    /\ commits = <<>>
    /\ inSpeedCalls = 0

\* Engine.start creates the task of produce_messages; send_messages is not
\* started. Its task is created and has not run yet: the coroutine reads
\* time.time() for its start_time when the event loop first runs it.
InitOutbound ==
    /\ send_queue = <<>>
    /\ unfinished = 0
    /\ outPc = [r \in OutRelays |->
                  IF r = "produce_messages" THEN "created" ELSE "idle"]
    /\ message = [r \in OutRelays |-> 0]
    /\ messages_sent = [r \in OutRelays |-> 0]
    /\ start_time = [r \in OutRelays |-> 0]
    /\ outShutdown = [r \in OutRelays |-> FALSE]
    /\ inflight = {}
    /\ acked = {}
    /\ now = 0
    /\ submitted = <<>>
    /\ sendCalls = <<>>
    /\ sendReturns = 0
    /\ speedLog = 0
    /\ outShutdownAt = [r \in OutRelays |-> "unset"]
    /\ sleepArg = [r \in OutRelays |-> 0]
    /\ outSpeedCalls = [r \in OutRelays |-> 0]
    /\ rejected = {}

Init == InitInbound /\ InitOutbound

\* For the outbound relay alone: the inbound side in one configuration.
InitOut ==
    /\ Init
    /\ batch_size = 1
    /\ maxsize = 0

NextInbound ==
    \/ InPollStart
    \/ InLoopExit
    \/ InPollReturn
    \/ InPollFail
    \/ RunPutTask
    \/ InGatherDone
    \/ InCommitReturn
    \/ InCommitFail
    \/ SetInShutdown
    \/ ConsumerWakeup
    \/ RunConsumer

NextRestart ==
    \/ NextInbound
    \/ ProcessRestart

NextOutbound ==
    \/ \E r \in OutRelays : OutLoopExit(r)
    \/ \E r \in OutRelays : OutCycleEmpty(r)
    \/ \E r \in OutRelays : OutSleepDone(r)
    \/ \E r \in OutRelays : OutCycleSend(r)
    \/ \E r \in OutRelays : OutSendReturn(r)
    \/ \E r \in OutRelays : OutSendFail(r)
    \/ \E r \in OutRelays : SetOutShutdown(r)
    \/ ProducerPut
    \/ BrokerAck
    \/ BrokerReject
    \/ Tick

\* The outbound relay without shutdown and without a failing publish.
NextOutboundRunning ==
    \/ \E r \in OutRelays : OutCycleEmpty(r)
    \/ \E r \in OutRelays : OutSleepDone(r)
    \/ \E r \in OutRelays : OutCycleSend(r)
    \/ \E r \in OutRelays : OutSendReturn(r)
    \/ ProducerPut
    \/ BrokerAck
    \/ BrokerReject
    \/ Tick

\* The steps of the outbound relays that the event loop takes when it can:
\* a ready task is run, a sleep ends, a send that does not fail returns.
OutRelayStep ==
    \E r \in OutRelays :
        OutCycleEmpty(r) \/ OutSleepDone(r) \/ OutCycleSend(r) \/ OutSendReturn(r)

\* produce_messages and send_messages started together on one event loop,
\* taking from the same outbound queue.
InitBoth ==
    /\ InitInbound
    /\ batch_size = 1
    /\ maxsize = 0
    /\ send_queue = <<>>
    /\ unfinished = 0
    /\ outPc = [r \in OutRelays |-> "created"]
    /\ message = [r \in OutRelays |-> 0]
    /\ messages_sent = [r \in OutRelays |-> 0]
    /\ start_time = [r \in OutRelays |-> 0]
    /\ outShutdown = [r \in OutRelays |-> FALSE]
    /\ inflight = {}
    /\ acked = {}
    /\ now = 0
    /\ submitted = <<>>
    /\ sendCalls = <<>>
    /\ sendReturns = 0
    /\ speedLog = 0
    /\ outShutdownAt = [r \in OutRelays |-> "unset"]
    /\ sleepArg = [r \in OutRelays |-> 0]
    /\ outSpeedCalls = [r \in OutRelays |-> 0]
    /\ rejected = {}

\* The outbound relays, their shutdown events and the external producer.
NextBoth ==
    \/ \E r \in OutRelays : OutLoopExit(r)
    \/ \E r \in OutRelays : OutCycleEmpty(r)
    \/ \E r \in OutRelays : OutSleepDone(r)
    \/ \E r \in OutRelays : OutCycleSend(r)
    \/ \E r \in OutRelays : OutSendReturn(r)
    \/ \E r \in OutRelays : OutSendFail(r)
    \/ \E r \in OutRelays : SetOutShutdown(r)
    \/ ProducerPut

\* One relay run on its own, as the module's functions allow: receive_messages
\* with an unbounded queue or a queue of the smallest capacity, or
\* send_messages; the other relay is not started.
InitAlone ==
    /\ position = [p \in Partitions |-> 0]
    /\ committed = [p \in Partitions |-> 0]
    /\ inPc \in {"top", "idle"}
    /\ batch_size = MaxBatchSize
    /\ maxsize \in IF inPc = "idle" THEN {0} ELSE {0, 1}
    /\ batch = <<>>
    /\ cur = 1
    /\ inShutdown = FALSE
    /\ receive_queue = <<>>
    /\ putters = <<>>
    /\ ready = <<>>
    /\ tasksDone = {}
    /\ enqueued = <<>>
    /\ cycleStart = 0
    /\ restarts = 0
    /\ inError = "none"
    /\ inShutdownAt = "unset"
    /\ commits = <<>>
    /\ inSpeedCalls = 0
    /\ send_queue = <<>>
    /\ unfinished = 0
    /\ outPc = [r \in OutRelays |->
                  IF inPc = "idle" /\ r = "send_messages" THEN "created" ELSE "idle"]
    /\ message = [r \in OutRelays |-> 0]
    /\ messages_sent = [r \in OutRelays |-> 0]
    /\ start_time = [r \in OutRelays |-> 0]
    /\ outShutdown = [r \in OutRelays |-> FALSE]
    /\ inflight = {}
    /\ acked = {}
    /\ now = 0
    /\ submitted = <<>>
    /\ sendCalls = <<>>
    /\ sendReturns = 0
    /\ speedLog = 0
    /\ outShutdownAt = [r \in OutRelays |-> "unset"]
    /\ sleepArg = [r \in OutRelays |-> 0]
    /\ outSpeedCalls = [r \in OutRelays |-> 0]
    /\ rejected = {}

\* A relay on its own with every broker call returning: no getmany, commit
\* or send raises.
NextAlone ==
    \/ InPollStart
    \/ InLoopExit
    \/ InPollReturn
    \/ RunPutTask
    \/ InGatherDone
    \/ InCommitReturn
    \/ SetInShutdown
    \/ ConsumerWakeup
    \/ RunConsumer
    \/ \E r \in OutRelays : OutLoopExit(r)
    \/ \E r \in OutRelays : OutCycleEmpty(r)
    \/ \E r \in OutRelays : OutSleepDone(r)
    \/ \E r \in OutRelays : OutCycleSend(r)
    \/ \E r \in OutRelays : OutSendReturn(r)
    \/ \E r \in OutRelays : SetOutShutdown(r)
    \/ ProducerPut

\* The steps of the inbound relay that are taken when they can be: the loop
\* condition, and the return of getmany, of the gather and of commit.
InRelayStep ==
    InPollStart \/ InLoopExit \/ InPollReturn \/ InGatherDone \/ InCommitReturn

\* The event loop runs the callback at the head of its ready queue.
EventLoopStep == RunPutTask \/ RunConsumer

\* The steps of an outbound relay that are taken when they can be, the loop
\* exit included.
OutRelayStepOrExit == OutRelayStep \/ \E r \in OutRelays : OutLoopExit(r)

\* Engine.start: the tasks of consume_messages and produce_messages on one
\* event loop, with an unbounded inbound queue.
InitEngine ==
    /\ Init
    /\ batch_size = 1
    /\ maxsize = 0

\* Both relays of the engine, their shutdown events, failing broker calls, the
\* external producer and the broker failing deliveries.
NextEngine ==
    \/ InPollStart
    \/ InLoopExit
    \/ InPollReturn
    \/ InPollFail
    \/ RunPutTask
    \/ InGatherDone
    \/ InCommitReturn
    \/ InCommitFail
    \/ SetInShutdown
    \/ \E r \in OutRelays : OutLoopExit(r)
    \/ \E r \in OutRelays : OutCycleEmpty(r)
    \/ \E r \in OutRelays : OutSleepDone(r)
    \/ \E r \in OutRelays : OutCycleSend(r)
    \/ \E r \in OutRelays : OutSendReturn(r)
    \/ \E r \in OutRelays : OutSendFail(r)
    \/ \E r \in OutRelays : SetOutShutdown(r)
    \/ ProducerPut
    \/ BrokerReject

\* The inbound relay with its queue, the broker and the external consumer.
SpecInbound == Init /\ [][NextInbound]_vars

\* The same, with the engine's process killed and started again.
SpecRestart == Init /\ [][NextRestart]_vars

\* The outbound relay with its queue, the producer, the broker and the clock.
SpecOutbound == InitOut /\ [][NextOutbound]_vars

\* The engine as Engine.start sets it up: both relays running together.
SpecEngine == InitEngine /\ [][NextEngine]_vars

\* Two outbound relays on one outbound queue.
SpecBoth == InitBoth /\ [][NextBoth]_vars

\* A relay on its own under a fair event loop and a broker that answers every
\* call. Nothing is assumed of the external consumer and producer.
SpecAlone ==
    /\ InitAlone
    /\ [][NextAlone]_vars
    /\ WF_vars(InRelayStep)
    /\ WF_vars(EventLoopStep)
    /\ WF_vars(OutRelayStepOrExit)

\* The outbound relay left running: no shutdown, no failing publish, and the
\* event loop's fairness to the relay.
SpecOutboundRunning ==
    /\ InitOut
    /\ [][NextOutboundRunning]_vars
    /\ WF_vars(OutRelayStep)

(* ------------------------------------------------------------ properties *)

\* The records that have been put into the inbound queue, as (partition, offset).
EnqueuedRecords == {<<enqueued[i].tp, enqueued[i].offset>> : i \in DOMAIN enqueued}

\* What the current cycle has put into the inbound queue.
CycleEnqueued == SubSeq(enqueued, cycleStart + 1, Len(enqueued))

\* The records of the last poll result.
BatchRecords == UNION {{batch[i].messages[j] : j \in DOMAIN batch[i].messages}
                          : i \in DOMAIN batch}

\* The number of records of the last poll result.
BatchCount == SumOver([i \in DOMAIN batch |-> Len(batch[i].messages)], DOMAIN batch)

\* Every record of the last poll result was put exactly once in this cycle,
\* with its own value.
BatchDelivered ==
    /\ Len(CycleEnqueued) = BatchCount
    /\ \A m \in BatchRecords :
          Cardinality({k \in DOMAIN CycleEnqueued :
                          /\ CycleEnqueued[k].tp = m.tp
                          /\ CycleEnqueued[k].offset = m.offset
                          /\ CycleEnqueued[k].value = m.value}) = 1

IsPrefix(a, b) == Len(a) <= Len(b) /\ a = SubSeq(b, 1, Len(a))

\* How often task_done() was called on the outbound queue.
DoneCount == Len(submitted) - unfinished

\* C1: whatever offset the broker holds as committed for a partition, every
\* record of that partition below it has been put into the inbound queue.
InC1_EnqueuedBeforeCommitted ==
    \A p \in Partitions : \A o \in 0..(committed[p] - 1) :
        <<p, o>> \in EnqueuedRecords

\* C2: a relay (of a restarted process or not) that has consumed every partition to its
\* end and is back at the top of its loop has put every record of every
\* partition into the inbound queue at least once.
InC2_NoRecordSkipped ==
    (inPc = "top" /\ \A p \in Partitions : position[p] = LogLen)
        => \A p \in Partitions : \A o \in 0..(LogLen - 1) :
              <<p, o>> \in EnqueuedRecords

\* C3: when a cycle has completed, the inbound queue has received exactly
\* the records of the poll result, each once and with its value unmodified.
InC3_ExactlyTheBatch ==
    (inPc \in {"top", "stopped"}) => BatchDelivered

InC3_Witness ==
    /\ inPc = "top"
    /\ Len(batch) = 2
    /\ BatchCount = 3
    /\ Len(CycleEnqueued) = 3

\* C4: the records of one partition are put into the inbound queue in offset
\* order, and the queue holds the values last put, oldest first.
InC4_PartitionOrder ==
    /\ \A i, j \in DOMAIN enqueued :
          (i < j /\ enqueued[i].tp = enqueued[j].tp)
              => enqueued[i].offset < enqueued[j].offset
    /\ Len(receive_queue) <= Len(enqueued)
    /\ \A k \in DOMAIN receive_queue :
          receive_queue[k] =
              enqueued[Len(enqueued) - Len(receive_queue) + k].value

\* A gather of two puts into a queue of size 1 has completed: its second
\* put was suspended until the external consumer took an item.
InC4_Witness ==
    /\ maxsize = 1
    /\ inPc = "committing"
    /\ Len(batch[cur].messages) >= 2
    /\ Len(receive_queue) = 1

\* C5: producer.send is called with the items in the order they were
\* submitted, once each, and every submitted item is eventually sent.
OutC5_AllSentInOrder ==
    /\ [](IsPrefix(sendCalls, submitted))
    /\ \A n \in 1..MaxItems :
          (Len(submitted) >= n) ~> (Len(sendCalls) >= n)

OutC5_Witness ==
    /\ Len(submitted) = MaxItems
    /\ sendCalls = submitted
    /\ sendReturns = MaxItems

\* C6: task_done() has been called at most as often as producer.send has
\* returned without error.
OutC6_DoneAfterSendReturned == DoneCount <= sendReturns

OutC6_Witness ==
    /\ DoneCount = 2
    /\ sendReturns = 2
    /\ \E r \in OutRelays : outPc[r] = "failed"

\* C7: at most one record is unacknowledged at a time, and no more items
\* are marked done than the broker has acknowledged.
OutC7_OneInFlight ==
    /\ Cardinality(inflight) <= 1
    /\ DoneCount <= Cardinality(acked)

\* C8: once the inbound shutdown event is set no poll is started, and a
\* relay that has stopped has put every record of its last poll result into
\* the inbound queue and committed up to its position.
InC8_ShutdownCompletesCycle ==
    /\ [][inShutdown => (inPc' = "polling" => inPc = "polling")]_vars
    /\ [](inPc = "stopped" => (BatchDelivered /\ committed = position))

InC8_Witness ==
    /\ inPc = "stopped"
    /\ inShutdownAt = "polling"
    /\ Len(batch) = 2
    /\ BatchDelivered
    /\ committed = position

\* C9: once a relay's shutdown event is set the relay takes no item and
\* calls no send; from the top of its loop it can only stop.
OutC9_NoPublishAfterShutdown ==
    [][\A r \in OutRelays :
          outShutdown[r] =>
              /\ outPc'[r] = "sending" => outPc[r] = "sending"
              /\ message'[r] = message[r]
              /\ AtTop(r) => outPc'[r] \in {"created", "top", "stopped"}]_vars

\* Stopped after the publish that was in flight when the event was set was
\* marked done, with an item left in the queue.
OutC9_Witness ==
    \E r \in OutRelays :
        /\ outPc[r] = "stopped"
        /\ outShutdownAt[r] = "sending"
        /\ send_queue # <<>>
        /\ DoneCount = Len(sendCalls)

\* C10: a poll that returns an empty result takes the relay to the top of
\* its loop with no error, no commit and no put.
InC10_EmptyPoll ==
    [][(inPc = "polling" /\ inPc' # "polling" /\ inError' # "getmany"
            /\ batch' = <<>>)
          => /\ inPc' = "top"
             /\ inError' = "none"
             /\ committed' = committed
             /\ enqueued' = enqueued
             /\ receive_queue' = receive_queue
             /\ ready' = ready]_vars

\* Back at the top after an empty poll that followed a poll with records.
InC10_Witness ==
    /\ inPc = "top"
    /\ batch = <<>>
    /\ enqueued # <<>>
    /\ committed = position

\* What a cycle that finds the outbound queue empty does besides the
\* counter: one sleep of the fixed duration, no get, no send, no task_done;
\* and the sleep ends at the loop condition.
EmptyCycleSteps(r) ==
    /\ (AtTop(r) /\ outPc'[r] \notin {"created", "top"} /\ ~outShutdown[r]
            /\ send_queue = <<>>)
          => /\ outPc'[r] = "sleeping"
             /\ sleepArg[r] = 0
             /\ sleepArg'[r] = SleepSeconds
             /\ send_queue' = send_queue
             /\ message'[r] = message[r]
             /\ sendCalls' = sendCalls
             /\ sendReturns' = sendReturns
             /\ unfinished' = unfinished
    /\ (outPc[r] = "sleeping" /\ outPc'[r] # "sleeping")
          => /\ outPc'[r] = "top"
             /\ sleepArg'[r] = 0
             /\ messages_sent'[r] = messages_sent[r]
             /\ message'[r] = message[r]
             /\ sendCalls' = sendCalls
             /\ unfinished' = unfinished

\* C11 as claimed: a cycle on an empty outbound queue sleeps once, takes and
\* sends nothing, marks nothing done and leaves the counter unchanged.
OutC11_EmptyCycleCounterUnchanged ==
    [][\A r \in OutRelays :
          /\ EmptyCycleSteps(r)
          /\ (AtTop(r) /\ outPc'[r] \notin {"created", "top"} /\ ~outShutdown[r]
                  /\ send_queue = <<>>)
                => messages_sent'[r] = messages_sent[r]]_vars

\* C11 as amended: the same, with the counter left as the speed monitor
\* returns it: unchanged inside the window, zero once the interval is over.
OutC11_EmptyCycle ==
    [][\A r \in OutRelays :
          /\ EmptyCycleSteps(r)
          /\ (AtTop(r) /\ outPc'[r] \notin {"created", "top"} /\ ~outShutdown[r]
                  /\ send_queue = <<>>)
                => messages_sent'[r] =
                      IF now - WindowStart(r) < LogInterval
                      THEN messages_sent[r] ELSE 0]_vars

\* Asleep on an empty queue in a cycle whose log_speed call reset a counter
\* that had counted a sent item.
OutC11_Witness ==
    \E r \in OutRelays :
        /\ outPc[r] = "sleeping"
        /\ sleepArg[r] = SleepSeconds
        /\ send_queue = <<>>
        /\ sendReturns >= 1
        /\ messages_sent[r] = 0
        /\ speedLog = 1
        /\ start_time[r] = now

(* ------------------------------------------------------------- C12 ----- *)

\* The highest offset among the records of item k of the poll result.
LastOffset(k) == batch[k].messages[Len(batch[k].messages)].offset

\* The puts made in this cycle before commit call k was issued.
EnqueuedBefore(k) ==
    {<<enqueued[i].tp, enqueued[i].offset>> :
        i \in (cycleStart + 1)..commits[k].enqueued}

\* C12: a poll result with records gets one commit call per partition in it,
\* in the order of the result; call k is issued after every record of
\* partition k was enqueued, and the position it commits for that partition
\* is the partition's highest fetched offset plus one. When the cycle is
\* complete there are as many calls as partitions in the result.
InC12_OneCommitPerPartition ==
    /\ Len(commits) <= Len(batch)
    /\ \A k \in DOMAIN commits :
          /\ commits[k].tp = batch[k].tp
          /\ \A j \in DOMAIN commits : commits[j].tp = commits[k].tp => j = k
          /\ commits[k].offsets[batch[k].tp] = LastOffset(k) + 1
          /\ \A i \in DOMAIN batch[k].messages :
                <<batch[k].tp, batch[k].messages[i].offset>> \in EnqueuedBefore(k)
    /\ inPc = "putting" => Len(commits) = cur - 1
    /\ inPc = "committing" => Len(commits) = cur
    /\ inPc \in {"top", "stopped"} => Len(commits) = Len(batch)

\* A cycle over two partitions, one with two records, is complete.
InC12_Witness ==
    /\ inPc = "top"
    /\ Len(batch) = 2
    /\ Len(commits) = 2
    /\ Len(batch[1].messages) = 2
    /\ commits[1].offsets[batch[1].tp] = 2

(* ------------------------------------------------------------- C13 ----- *)

\* Relay r's step calls log_speed: the start of a cycle past the loop check.
SpeedMonitorCalled(r) ==
    /\ AtTop(r)
    /\ outPc'[r] \in {"sleeping", "getting", "sending"}

\* C13: log_speed called less than the interval after the window's start
\* returns the (start_time, counter) it was given and logs nothing, so calls
\* inside one window change nothing; called when the interval has elapsed it
\* logs one record and returns (current time, 0).
OutC13_SpeedMonitor ==
    [][\A r \in OutRelays :
          SpeedMonitorCalled(r) =>
             IF now - WindowStart(r) < LogInterval
             THEN /\ start_time'[r] = WindowStart(r)
                  /\ messages_sent'[r] = messages_sent[r]
                  /\ speedLog' = speedLog
             ELSE /\ start_time'[r] = now
                  /\ messages_sent'[r] = 0
                  /\ speedLog' = speedLog + 1]_vars

\* The monitor has logged once, exactly when the interval had elapsed, and a
\* later call inside the new window has kept the counter of an item sent in it.
OutC13_Witness ==
    \E r \in OutRelays :
        /\ speedLog = 1
        /\ start_time[r] = LogInterval
        /\ now > start_time[r]
        /\ messages_sent[r] = 1
        /\ outPc[r] = "sleeping"

(* ------------------------------------------------------------- C14 ----- *)

\* C14: every relay, inbound as well as outbound, has called log_speed
\* exactly once in the loop iteration it is in.
C14_SpeedMonitorOncePerIteration ==
    /\ inPc \in {"polling", "putting", "committing"} => inSpeedCalls = 1
    /\ \A r \in OutRelays :
          outPc[r] \in {"sleeping", "getting", "sending"} => outSpeedCalls[r] = 1

(* ------------------------------------------------------------- C15 ----- *)

\* The start of an outbound cycle, whichever branch it takes.
OutCycleStart(r) == OutCycleEmpty(r) \/ OutCycleSend(r)

\* C15: each relay is stopped by its own shutdown event only. A relay that
\* has left its loop had its own event set, so both have stopped only after
\* both events were set; a relay whose own event is not set has not stopped
\* and, at the top of its loop, starts its next cycle (a poll for the inbound
\* relay, a dequeue and publish or a sleep for the outbound relay), whatever
\* the other relay's event and state are.
C15_IndependentShutdown ==
    /\ inPc = "stopped" => inShutdown
    /\ outPc["produce_messages"] = "stopped" => outShutdown["produce_messages"]
    /\ (~inShutdown /\ inPc = "top") => ENABLED InPollStart
    /\ (~outShutdown["produce_messages"] /\ AtTop("produce_messages"))
          => ENABLED OutCycleStart("produce_messages")
    /\ (~outShutdown["produce_messages"] /\ AtTop("produce_messages"))
          => ~ENABLED OutLoopExit("produce_messages")
    /\ (~inShutdown /\ inPc = "top") => ~ENABLED InLoopExit

\* Only the inbound event was set: the inbound relay has stopped and the
\* outbound relay is publishing an item that it dequeued.
C15_Witness ==
    /\ inPc = "stopped"
    /\ inShutdown
    /\ ~outShutdown["produce_messages"]
    /\ outPc["produce_messages"] = "sending"
    /\ sendReturns >= 1

(* ------------------------------------------------------------- C16 ----- *)

\* C16: a broker failure during a poll, a commit or a publish terminates the
\* relay that made the call, which makes no broker call afterwards, and the
\* step of the failure leaves the state of the relay of the other direction
\* unchanged. A publish that the broker fails after send has returned is a
\* broker failure during publish as well.
C16_BrokerFailureTerminatesRelay ==
    [][/\ (inPc # "failed" /\ inPc' = "failed") => UNCHANGED outVars
       /\ inPc = "failed" => inPc' = "failed"
       /\ \A r \in OutRelays :
             /\ (outPc[r] # "failed" /\ outPc'[r] = "failed") => UNCHANGED inVars
             /\ outPc[r] = "failed" =>
                   /\ outPc'[r] = "failed"
                   /\ \A x \in inflight' \ inflight : x # message[r]
       /\ \A x \in rejected' \ rejected :
             \E r \in OutRelays : message[r] = x /\ outPc'[r] = "failed"]_vars

(* ------------------------------------------------------------- C17 ----- *)

\* The places a put of the gather can be in: returned, waiting to be run by
\* the event loop, suspended on the full queue.
PutPlaces(i) ==
    (IF i \in tasksDone THEN 1 ELSE 0)
    + Len(SelectSeq(ready, LAMBDA t : t = PutTask(i)))
    + Len(SelectSeq(putters, LAMBDA w : w = i))

\* The external consumer takes an item while puts are suspended: the put
\* suspended longest is made ready and the queue has room for it.
ConsumerFreesPutter ==
    /\ RunConsumer
    /\ Len(receive_queue') < maxsize
    /\ ready'[Len(ready')] = PutTask(Head(putters))

\* C17: with a bounded inbound queue the relay suspends when the capacity is
\* used up and does not fail: the queue never holds more than maxsize items;
\* while a put is suspended the relay is in the gather of that partition (it
\* has not failed, is not polling and not committing) and the queue is full
\* or a put that was woken is about to fill it; every record of the
\* partition's batch is in exactly one place, enqueued, ready to be put or
\* suspended, so none is dropped; and when the external consumer takes an
\* item the longest suspended put is resumed.
InC17_Backpressure ==
    /\ maxsize > 0 => Len(receive_queue) <= maxsize
    /\ putters # <<>> =>
          /\ inPc = "putting"
          /\ inError = "none"
          /\ Full(receive_queue) \/ \E k \in DOMAIN ready : ready[k].kind = "put"
          /\ Len(commits) = cur - 1
    /\ inPc = "putting" =>
          \A i \in DOMAIN batch[cur].messages :
             /\ PutPlaces(i) = 1
             /\ i \in tasksDone =>
                   \E k \in (cycleStart + 1)..Len(enqueued) :
                      /\ enqueued[k].tp = batch[cur].tp
                      /\ enqueued[k].offset = batch[cur].messages[i].offset
    /\ (/\ putters # <<>>
        /\ receive_queue # <<>>
        /\ ready # <<>>
        /\ Head(ready).kind = "get") => ENABLED ConsumerFreesPutter

\* A queue of capacity 1 is full and the other put of the batch is suspended,
\* after the consumer has taken items before.
InC17_Witness ==
    /\ maxsize = 1
    /\ Len(receive_queue) = 1
    /\ putters # <<>>
    /\ Len(batch[cur].messages) = 2
    /\ Len(enqueued) >= 2

(* ------------------------------------------------------------- C18 ----- *)

\* The items on the outbound queue.
Queued == {send_queue[i] : i \in DOMAIN send_queue}

\* C18: after producer.send has raised in a relay, the item it was publishing
\* is not on the outbound queue (the get removed it and nothing puts it
\* back), is not at the broker (neither buffered, acknowledged nor failed
\* there), has not been marked done, and the queue's count of unfinished
\* items is above zero.
OutC18_FailedItemLost ==
    \A r \in OutRelays :
        outPc[r] = "failed" =>
           /\ message[r] \notin Queued
           /\ message[r] \notin inflight \cup acked \cup rejected
           /\ unfinished > 0
           /\ DoneCount = sendReturns
           /\ unfinished >= Len(send_queue) + 1

\* The publish of the second item failed after the first was published, and
\* a third item is still on the queue.
OutC18_Witness ==
    \E r \in OutRelays :
        /\ outPc[r] = "failed"
        /\ message[r] = 2
        /\ sendReturns = 1
        /\ send_queue = <<3>>

(* ------------------------------------------------------------- C19 ----- *)

\* C19 as stated: once a relay's shutdown event is set the relay eventually
\* leaves its loop, whatever its queue holds at that moment: the inbound
\* queue bounded and full, the outbound queue empty.
C19_ShutdownStops ==
    /\ inShutdown ~> inPc = "stopped"
    /\ \A r \in OutRelays : outShutdown[r] ~> outPc[r] = "stopped"

\* C19 amended: an outbound relay always leaves its loop after its event is
\* set; the inbound relay does so with an unbounded queue, and with a bounded
\* queue provided the external consumer keeps taking items: the relay
\* suspended in a put on the full queue finishes its cycle only when the
\* consumer makes room.
C19_ShutdownStopsIfDrained ==
    /\ (inShutdown /\ maxsize = 0) ~> inPc = "stopped"
    /\ WF_vars(ConsumerWakeup) => (inShutdown ~> inPc = "stopped")
    /\ \A r \in OutRelays : outShutdown[r] ~> outPc[r] = "stopped"

\* The inbound relay has stopped after its event was set while it was
\* suspended in a put on the full bounded queue.
C19_Witness ==
    /\ inPc = "stopped"
    /\ inShutdownAt = "suspended"
    /\ maxsize > 0
    /\ BatchDelivered

(* ------------------------------------------------------------- C20 ----- *)

\* C20: the get that follows a check that found the queue not empty never
\* suspends, also when another outbound relay takes from the same queue and
\* the external producer puts into it: no relay is ever suspended in get,
\* every step into a publish takes the item at the head of a queue that is
\* not empty, and two relays never hold the same item.
OutC20_GetNeverSuspends ==
    /\ [](\A r \in OutRelays : outPc[r] # "getting")
    /\ [](\A r, q \in OutRelays :
            (r # q /\ outPc[r] = "sending" /\ outPc[q] = "sending")
               => message[r] # message[q])
    /\ [][\A r \in OutRelays :
            (AtTop(r) /\ outPc'[r] \notin {"created", "top", "stopped", "sleeping"})
               => /\ send_queue # <<>>
                  /\ outPc'[r] = "sending"
                  /\ message'[r] = Head(send_queue)
                  /\ send_queue' = Tail(send_queue)]_vars

\* Both relays are in a publish, each of its own item, and the queue that
\* the second one found not empty is empty again.
OutC20_Witness ==
    /\ outPc["produce_messages"] = "sending"
    /\ outPc["send_messages"] = "sending"
    /\ message["produce_messages"] # message["send_messages"]
    /\ send_queue = <<>>
    /\ sendReturns >= 1

====
